---- MODULE Spec2Model ----
(***************************************************************************)
(* Threat-Intelligence-Service: the evidence resolver (graph.py), the      *)
(* distribution regeneration driver (regenerate_distributions.py) and the  *)
(* Monte Carlo simulation driver (montecarlo.py), over the graph store of  *)
(* Size / Industry nodes, raw evidence and derived distributions.          *)
(*                                                                         *)
(* Python values are tagged records.  Numbers are exact rationals n/d in   *)
(* lowest terms (Python's true division), so that a mean is a mean and     *)
(* not a rounded integer.  The fitted parameters a, b and stddev are       *)
(* floating-point results of log / OLS / exp; they are carried as the      *)
(* exact numbers the logarithms are taken of, with the sign of the fit.    *)
(***************************************************************************)
EXTENDS Integers, Sequences, FiniteSets, TLC

VARIABLES
    sizeNodes,      \* names of the Size nodes in the graph
    industryNodes,  \* names of the Industry nodes in the graph
    probEv,         \* IncidentProbability values attached to each node
    costEv,         \* IncidentCostAverages (mean, median) attached to each node
    baseVecs,       \* IncidentBaseFrequencyProbabilities vectors
    dists,          \* IncidentFrequencyDistribution / IncidentCostsDistribution nodes
    nextId,         \* identity of the next node created
    clock,          \* datetime.now(), counted in regeneration passes begun
    cache,          \* "{size}-{industry}.pickle" files in OUTPUT_DIR
    regen,          \* the regeneration script's position and locals
    sim,            \* the simulation script's position and locals
    call,           \* the last call of a function on its own and what it returned
    engine          \* _run_monte_carlo_simulation's position and locals

storeVars == <<sizeNodes, industryNodes, probEv, costEv, baseVecs>>
vars == <<sizeNodes, industryNodes, probEv, costEv, baseVecs, dists, nextId,
          clock, cache, regen, sim, call, engine>>

----------------------------------------------------------------------------
(* Bounds of the model. *)

MaxEv == 2          \* evidence items attached to one node (resolver inputs)
MaxPasses == 2      \* regeneration passes begun in one behaviour
MaxRuns == 2        \* simulation script runs in one behaviour

----------------------------------------------------------------------------
(* Python values. *)

RECURSIVE GCD(_, _)
GCD(a, b) == IF b = 0 THEN a ELSE GCD(b, a % b)

PyNone == [tag |-> "None", n |-> 0, d |-> 1]

\* the number n/d, in lowest terms
Num(n, d) == LET g == GCD(n, d) IN [tag |-> "num", n |-> n \div g, d |-> d \div g]

\* bool(v): None and 0 are falsy
Truthy(v) == v.tag = "num" /\ v.n # 0

\* Python's `x or y` and (x + y) / 2
PyOr(x, y) == IF Truthy(x) THEN x ELSE y
Halve(x, y) == Num(x.n * y.d + y.n * x.d, 2 * x.d * y.d)

RECURSIVE SumSeq(_)
SumSeq(s) == IF s = <<>> THEN 0 ELSE Head(s) + SumSeq(Tail(s))

\* the node keys that hold evidence
SizeKey(name) == <<"Size", name>>
IndustryKey(name) == <<"Industry", name>>

\* "{}-{}.pickle".format(pairing[0], pairing[1])
CacheKey(pairing) == pairing[1] \o "-" \o pairing[2] \o ".pickle"

----------------------------------------------------------------------------
(* graph.py: the evidence resolver. *)

\* a side that starts at 0 instead of None
AverageSide_from_zero(values) ==
    IF Len(values) > 1 THEN Num(SumSeq(values), Len(values))
    ELSE IF Len(values) = 1 THEN Num(values[1], 1)
    ELSE Num(0, 1)

\* several values: their mean; one: that value; none: the side stays None
AverageSide(values) ==
    IF Len(values) > 1 THEN Num(SumSeq(values), Len(values))
    ELSE IF Len(values) = 1 THEN Num(values[1], 1)
    ELSE PyNone

\* `(s + i) / 2 if s and i else s or i`
CombineSides(s, i) == IF Truthy(s) /\ Truthy(i) THEN Halve(s, i) ELSE PyOr(s, i)

SizeProbability(sn, pe, size) ==
    IF size \in sn THEN AverageSide(pe[SizeKey(size)]) ELSE PyNone

IndustryProbability(inn, pe, industry) ==
    IF industry \in inn THEN AverageSide(pe[IndustryKey(industry)]) ELSE PyNone

get_probability_of_breach(sn, inn, pe, size, industry) ==
    IF size \notin sn /\ industry \notin inn
    THEN PyNone
    ELSE CombineSides(SizeProbability(sn, pe, size),
                      IndustryProbability(inn, pe, industry))

Means(ev) == [k \in 1..Len(ev) |-> ev[k].mean]
Medians(ev) == [k \in 1..Len(ev) |-> ev[k].median]

NoAverages == [tag |-> "None", mean |-> PyNone, median |-> PyNone]

\* returns None when neither node exists, else the tuple (mean, median)
get_incident_cost_averages(sn, inn, ce, pairing) ==
    LET size == pairing[1]
        industry == pairing[2]
        sev == IF size \in sn THEN ce[SizeKey(size)] ELSE <<>>
        iev == IF industry \in inn THEN ce[IndustryKey(industry)] ELSE <<>>
    IN  IF size \notin sn /\ industry \notin inn
        THEN NoAverages
        ELSE [tag |-> "tuple",
              mean |-> CombineSides(AverageSide(Means(sev)), AverageSide(Means(iev))),
              median |-> CombineSides(AverageSide(Medians(sev)),
                                      AverageSide(Medians(iev)))]

----------------------------------------------------------------------------
(* graph.py: the derived-distribution store. *)

FrequencyLabel == "IncidentFrequencyDistribution"
CostsLabel == "IncidentCostsDistribution"

\* a relationship that was never created
NoNode == "<no node>"

NoProps == [none |-> TRUE]

\* a query that forgets the second label
delete_distributions_one_label(ds) ==
    {n \in ds : ~(n.label = FrequencyLabel)}

\* MATCH (n) WHERE n:IncidentFrequencyDistribution OR n:IncidentCostsDistribution
\* DETACH DELETE n
delete_distributions(ds) ==
    {n \in ds : ~(n.label = FrequencyLabel \/ n.label = CostsLabel)}

\* MATCH (:Size {name})<-[:FOR_SIZE]-(node:<label>)-[:FOR_INDUSTRY]->(:Industry {name})
MatchDistributions(ds, label, size, industry) ==
    {n \in ds : n.label = label /\ n.for_size = size /\ n.for_industry = industry}

\* sum(xs) / len(xs) over the matched nodes' property; one node: its own value
MeanOfProperty(values) ==
    IF Cardinality(values) = 1
    THEN CHOOSE v \in values : TRUE
    ELSE [mean_of |-> values]

Raise(exc) == [tag |-> "raise", exc |-> exc, val |-> NoProps]
ReturnNone == [tag |-> "None", exc |-> "", val |-> NoProps]
ReturnNoneTuple == [tag |-> "tuple", exc |-> "", val |-> NoProps]
ReturnDict(props) == [tag |-> "dict", exc |-> "", val |-> props]

_get_frequency_distribution(ds, size, industry) ==
    LET nodes == MatchDistributions(ds, FrequencyLabel, size, industry)
    IN  IF nodes = {}
        THEN IF size = "All" /\ industry = "All"
             THEN Raise("Exception: No fallback node found!")
             ELSE ReturnNoneTuple
        ELSE ReturnDict([a |-> MeanOfProperty({n.props.a : n \in nodes}),
                         b |-> MeanOfProperty({n.props.b : n \in nodes})])

_get_costs_distribution(ds, size, industry) ==
    LET nodes == MatchDistributions(ds, CostsLabel, size, industry)
    IN  IF nodes = {}
        THEN IF size = "All" /\ industry = "All"
             THEN Raise("Exception: No fallback node found!")
             ELSE ReturnNoneTuple
        ELSE ReturnDict([mean |-> MeanOfProperty({n.props.mean : n \in nodes}),
                         stddev |-> MeanOfProperty({n.props.stddev : n \in nodes})])

\* `if dist is not None: log.debug(..., str(dist["a"]), ...)`: the arguments
\* are evaluated whatever the log level, and a tuple has no string index
SubscriptForLog(dist) ==
    IF dist.tag = "tuple"
    THEN Raise("TypeError: tuple indices must be integers or slices, not str")
    ELSE dist

get_incident_frequency_distribution(sn, inn, ds, pairing) ==
    LET size == pairing[1]
        industry == pairing[2]
    IN  IF size \notin sn /\ industry \notin inn
        THEN _get_frequency_distribution(ds, "All", "All")
        ELSE SubscriptForLog(_get_frequency_distribution(ds, size, industry))

get_incident_costs_distribution(sn, inn, ds, pairing) ==
    LET size == pairing[1]
        industry == pairing[2]
    IN  IF size \notin sn /\ industry \notin inn
        THEN _get_costs_distribution(ds, "All", "All")
        ELSE SubscriptForLog(_get_costs_distribution(ds, size, industry))

----------------------------------------------------------------------------
(* regenerate_distributions.py: the distribution fitter. *)

MAX_ANNUAL_INCIDENTS == 8000

\* BOUNDARIES.values(), in insertion order
BOUNDARIES == <<0, 1, 2, 8, 18, 80, 400, MAX_ANNUAL_INCIDENTS>>

\* list(BOUNDARIES.values())[:-1]
AllButLast(s) == SubSeq(s, 1, Len(s) - 1)

ReturnList(xs) == [tag |-> "list", exc |-> "", val |-> [list |-> xs]]

\* a series that opens with the probability of a breach
IncidentProbabilities_breach_first(p, base) ==
    <<Num(p.n, 100 * p.d)>>
        \o [k \in 1..Len(base) |-> Num(p.n * base[k], p.d * 100 * 100)]

\* base vectors hold hundredths: 70 is 0.7
IncidentProbabilities(p, base) ==
    <<Num(100 * p.d - p.n, 100 * p.d)>>
        \o [k \in 1..Len(base) |-> Num(p.n * base[k], p.d * 100 * 100)]

get_incident_frequency_probabilities(sn, inn, pe, bv, boundaries, pairing) ==
    LET columns == Len(boundaries) - 1
        base == SelectSeq(bv, LAMBDA v : Len(v) = columns)
        probability_of_breach ==
            get_probability_of_breach(sn, inn, pe, pairing[1], pairing[2])
    IN  IF Len(base) > 1
        THEN \* np.mean(array[:, i]) for i in range(len(boundaries))
             IF Len(boundaries) > columns
             THEN Raise("IndexError: index out of bounds for axis 1")
             ELSE Raise("TypeError: 'numpy.float64' object is not iterable")
        ELSE IF Truthy(probability_of_breach)
        THEN IF base = <<>>
             THEN Raise("IndexError: list index out of range")
             ELSE LET probs == IncidentProbabilities(probability_of_breach, base[1])
                  IN  IF Len(probs) # Len(boundaries)
                      THEN Raise("Exception: Mismatched boundaries!")
                      ELSE ReturnList(probs)
        ELSE ReturnNone

\* _get_node(label, name=...).first()
NodeOf(names, name) == IF name \in names THEN name ELSE NoNode

\* _create_node commits the node, then one _create_relationship per end
\* node.  Relationship(node, type, None) is left to py2neo: it raises
\* (noneEndRaises) or creates nothing.
CreateDistributionNode(label, props, id, now, size_node, industry_node, noneEndRaises) ==
    LET sizeRaises == size_node = NoNode /\ noneEndRaises
        industryRaises == ~sizeRaises /\ industry_node = NoNode /\ noneEndRaises
    IN  [node |-> [id |-> id, label |-> label, props |-> props,
                   calculated_at |-> now,
                   for_size |-> IF sizeRaises THEN NoNode ELSE size_node,
                   for_industry |-> IF sizeRaises \/ industryRaises
                                    THEN NoNode ELSE industry_node],
         raised |-> sizeRaises \/ industryRaises]

create_incident_frequency_distribution_node(sn, inn, id, now, pairing, a, b, noneEndRaises) ==
    CreateDistributionNode(FrequencyLabel, [a |-> a, b |-> b], id, now,
                           NodeOf(sn, pairing[1]), NodeOf(inn, pairing[2]),
                           noneEndRaises)

create_incident_costs_distribution_node(sn, inn, id, now, pairing, mean, stddev, noneEndRaises) ==
    CreateDistributionNode(CostsLabel, [mean |-> mean, stddev |-> stddev], id, now,
                           NodeOf(sn, pairing[1]), NodeOf(inn, pairing[2]),
                           noneEndRaises)

\* what a sub-procedure did: the int it returned or the exception it raised,
\* and the node it committed, if any
Outcome(tag, exc, value, created) ==
    [tag |-> tag, exc |-> exc, value |-> value, created |-> created]

NoneEndError == "AttributeError: 'NoneType' object has no attribute 'graph'"

\* a creation that is not counted
AfterCreate_uncounted(c) ==
    IF c.raised THEN Outcome("raise", NoneEndError, 0, {c.node})
    ELSE Outcome("return", "", 0, {c.node})

AfterCreate(c) ==
    IF c.raised THEN Outcome("raise", NoneEndError, 0, {c.node})
    ELSE Outcome("return", "", 1, {c.node})

\* Fs = np.cumsum(incident_frequency_probabilities)
RECURSIVE cumsum(_)
cumsum(probs) ==
    IF probs = <<>> THEN <<>>
    ELSE LET before == cumsum(SubSeq(probs, 1, Len(probs) - 1))
             last == probs[Len(probs)]
             sofar == IF before = <<>> THEN Num(0, 1) ELSE before[Len(before)]
         IN  Append(before, Num(sofar.n * last.d + last.n * sofar.d, sofar.d * last.d))

\* xs = np.log(BOUNDARIES[1:]) and ys = np.log(1 - Fs): a logarithm is
\* carried as the number it is taken of
RegressionPoints(probs) ==
    LET Fs == cumsum(probs)
    IN  [i \in 1..Len(probs) |->
            [xs |-> Num(BOUNDARIES[i + 1], 1),
             ys |-> Num(Fs[i].d - Fs[i].n, Fs[i].d)]]

\* np.log(x) is a finite number for x > 0; it is -inf for 0 and nan below
FiniteLog(x) == x.n > 0

\* the sign of the OLS slope of ys on xs, xs increasing: the fit is not
\* finite when a point is not; a constant ys has slope 0, a ys that only
\* falls a negative slope and one that only rises a positive one
SlopeSign(points) ==
    LET n == Len(points)
        falls(i) == points[i + 1].ys.n * points[i].ys.d <= points[i].ys.n * points[i + 1].ys.d
        rises(i) == points[i + 1].ys.n * points[i].ys.d >= points[i].ys.n * points[i + 1].ys.d
    IN  IF \E i \in 1..n : ~FiniteLog(points[i].xs) \/ ~FiniteLog(points[i].ys)
        THEN "not finite"
        ELSE IF \A i \in 1..(n - 1) : falls(i) /\ rises(i) THEN "zero"
        ELSE IF \A i \in 1..(n - 1) : falls(i) THEN "negative"
        ELSE IF \A i \in 1..(n - 1) : rises(i) THEN "positive"
        ELSE "either"

\* a = -fit.params[1]
SignOfA(slope) ==
    IF slope = "negative" THEN "positive"
    ELSE IF slope = "positive" THEN "negative"
    ELSE slope

\* b = np.exp(alogb / a): positive when a is finite and not 0
SignOfB(slope) ==
    IF slope \in {"negative", "positive", "either"} THEN "positive" ELSE "not finite"

\* the OLS fit of log(1 - cumsum(probs)) on log(boundary): a and b are
\* carried as the probability vector they were fitted from and their sign
FitFrequency(probs) ==
    LET slope == SlopeSign(RegressionPoints(probs))
    IN  [a |-> [param |-> "a", fitted_from |-> probs, sign |-> SignOfA(slope)],
         b |-> [param |-> "b", fitted_from |-> probs, sign |-> SignOfB(slope)]]

_generate_new_incident_frequency_distribution(sn, inn, pe, bv, id, now, pairing, noneEndRaises) ==
    LET r == get_incident_frequency_probabilities(sn, inn, pe, bv,
                                                  AllButLast(BOUNDARIES), pairing)
    IN  IF r.tag = "raise" THEN Outcome("raise", r.exc, 0, {})
        ELSE IF r.tag = "None" THEN Outcome("return", "", 0, {})
        ELSE LET fit == FitFrequency(r.val.list)
             IN  AfterCreate(create_incident_frequency_distribution_node(
                     sn, inn, id, now, pairing, fit.a, fit.b, noneEndRaises))

\* np.exp(1) ** np.sqrt(2 * (np.log(mean) - 0 if median == 0 else np.log(median))):
\* the conditional expression takes the whole difference as its first arm,
\* so the logarithm is of the mean when the median is 0 and of the median
\* otherwise.  stddev is carried as the number x in exp(sqrt(2 * log(x))).
FitStddev(mean, median) ==
    [param |-> "stddev",
     exp_sqrt_twice_log_of |-> IF median.n = 0 THEN mean ELSE median]

_generate_new_incident_costs_distribution(sn, inn, ce, id, now, pairing, noneEndRaises) ==
    LET r == get_incident_cost_averages(sn, inn, ce, pairing)
    IN  IF r.tag = "None"
        THEN \* incident_mean_cost, incident_median_cost = None
             Outcome("raise", "TypeError: cannot unpack non-iterable NoneType object",
                     0, {})
        ELSE IF r.mean.tag = "None" \/ r.median.tag = "None"
        THEN Outcome("return", "", 0, {})
        ELSE AfterCreate(create_incident_costs_distribution_node(
                 sn, inn, id, now, pairing, r.mean, FitStddev(r.mean, r.median),
                 noneEndRaises))

----------------------------------------------------------------------------
(* montecarlo.py: distribution resolution and the simulation run. *)

NotCalled == [tag |-> "not called", exc |-> "", val |-> NoProps]

CacheEntry(file, incidents, costs) ==
    [file |-> file, incidents |-> incidents, costs |-> costs]

\* pickle.dump(dists, open(OUTPUT_DIR + filename, "wb")): replaces the file
WriteCache(ch, file, incidents, costs) ==
    {e \in ch : e.file # file} \cup {CacheEntry(file, incidents, costs)}

Resolution(tag, exc, incidents, costs, fresh, frequencyCall, costsCall, ch) ==
    [tag |-> tag, exc |-> exc, incidents |-> incidents, costs |-> costs,
     fresh |-> fresh, frequencyCall |-> frequencyCall, costsCall |-> costsCall,
     cache |-> ch]

\* pickle.load(open(OUTPUT_DIR + filename, "rb")); OSError when there is no file
CachedFile(ch, pairing) == {e \in ch : e.file = CacheKey(pairing)}

\* a cache hit that connects to the graph before it answers
CachedDistributions_connecting(ch, pairing) ==
    LET e == CHOOSE e \in CachedFile(ch, pairing) : TRUE
    IN  Resolution("return", "", e.incidents, e.costs, TRUE, NotCalled, NotCalled, ch)

\* lines 151-156: the cached pair, with no call of the graph interface (fresh
\* tells whether gi.__init__() of line 161 was reached)
CachedDistributions(ch, pairing) ==
    LET e == CHOOSE e \in CachedFile(ch, pairing) : TRUE
    IN  Resolution("return", "", e.incidents, e.costs, FALSE, NotCalled, NotCalled, ch)

\* a resolution that saves what it has when the cost query fails
FreshDistributions_saving_on_error(sn, inn, ds, ch, pairing) ==
    LET file == CacheKey(pairing)
        incidents_dist == get_incident_frequency_distribution(sn, inn, ds, pairing)
        costs_dist == get_incident_costs_distribution(sn, inn, ds, pairing)
    IN  IF incidents_dist.tag = "raise"
        THEN Resolution("raise", incidents_dist.exc, ReturnNone, ReturnNone, TRUE,
                        incidents_dist, NotCalled, ch)
        ELSE IF costs_dist.tag = "raise"
        THEN Resolution("raise", costs_dist.exc, ReturnNone, ReturnNone, TRUE,
                        incidents_dist, costs_dist,
                        WriteCache(ch, file, incidents_dist, ReturnNone))
        ELSE Resolution("return", "", incidents_dist, costs_dist, TRUE,
                        incidents_dist, costs_dist,
                        WriteCache(ch, file, incidents_dist, costs_dist))

\* lines 160-181: fresh distributions from the graph, saved when both are there
FreshDistributions(sn, inn, ds, ch, pairing) ==
    LET file == CacheKey(pairing)
        incidents_dist == get_incident_frequency_distribution(sn, inn, ds, pairing)
        costs_dist == get_incident_costs_distribution(sn, inn, ds, pairing)
    IN  IF incidents_dist.tag = "raise"
        THEN Resolution("raise", incidents_dist.exc, ReturnNone, ReturnNone, TRUE,
                        incidents_dist, NotCalled, ch)
        ELSE IF costs_dist.tag = "raise"
        THEN Resolution("raise", costs_dist.exc, ReturnNone, ReturnNone, TRUE,
                        incidents_dist, costs_dist, ch)
        ELSE Resolution("return", "", incidents_dist, costs_dist, TRUE,
                        incidents_dist, costs_dist,
                        IF incidents_dist.tag # "None" /\ costs_dist.tag # "None"
                        THEN WriteCache(ch, file, incidents_dist, costs_dist)
                        ELSE ch)

\* a resolution that catches the graph interface's exception and answers
\* (None, None)
_get_most_relevant_distributions_catching(sn, inn, ds, ch, pairing, FORCE) ==
    LET r == FreshDistributions(sn, inn, ds, ch, pairing)
    IN  IF ~FORCE /\ CachedFile(ch, pairing) # {}
        THEN CachedDistributions(ch, pairing)
        ELSE IF r.tag = "raise"
        THEN Resolution("return", "", ReturnNone, ReturnNone, TRUE,
                        r.frequencyCall, r.costsCall, ch)
        ELSE r

\* OUTPUT_DIR is args.output, which always has a value
_get_most_relevant_distributions(sn, inn, ds, ch, pairing, FORCE) ==
    IF ~FORCE /\ CachedFile(ch, pairing) # {}
    THEN CachedDistributions(ch, pairing)
    ELSE FreshDistributions(sn, inn, ds, ch, pairing)

\* what _run_monte_carlo_simulation gave back: "results" are the N incident
\* counts and N annual costs sampled from (incidents, costs); "none" is
\* (None, None)
Run(tag, exc, r) ==
    [tag |-> tag, exc |-> exc, incidents |-> r.incidents, costs |-> r.costs,
     fresh |-> r.fresh, frequencyCall |-> r.frequencyCall,
     costsCall |-> r.costsCall, cache |-> r.cache]

_run_monte_carlo_simulation(sn, inn, ds, ch, pairing, FORCE) ==
    LET r == _get_most_relevant_distributions(sn, inn, ds, ch, pairing, FORCE)
    IN  IF r.tag = "raise" THEN Run("raise", r.exc, r)
        ELSE IF r.incidents.tag = "None" /\ r.costs.tag = "None"
        THEN Run("none", "", r)
        ELSE IF r.incidents.tag # "dict"
        THEN \* incidents_dist["b"] in _calculate_num_of_incidents
             Run("raise", "TypeError: incidents_dist is not subscriptable by str", r)
        ELSE IF r.costs.tag # "dict"
        THEN \* costs_dist["mean"] in _calculate_sum_cost_of_incidents
             Run("raise", "TypeError: costs_dist is not subscriptable by str", r)
        ELSE Run("results", "", r)

NoRun == Run("not run", "", Resolution("", "", ReturnNone, ReturnNone, FALSE,
                                       NotCalled, NotCalled, {}))

\* the lines main prints
Running(pairing) == [line |-> "Running simulation for", pairing |-> pairing]
Results(pairing) == [line |-> "results", pairing |-> pairing]
NoDataFound(pairing) == [line |-> "No data found.", pairing |-> pairing]

----------------------------------------------------------------------------
(* The graph the scripts run against, and their inputs. *)

\* the --size / --industry values given to the scripts; "Mega" and "ZZ"
\* name no node of the graph
NotSupplied == "<None>"
SimPairings == {<<"All", "All">>, <<"Micro", "IT">>, <<"Micro", "ZZ">>, <<"Mega", "ZZ">>}
RegenPairings == {<<NotSupplied, NotSupplied>>, <<"Micro", NotSupplied>>,
                  <<"Mega", "IT">>, <<"Mega", "ZZ">>}

StoredSizes == {"All", "Micro"}
StoredIndustries == {"All", "IT"}
NodeKeys == {SizeKey(n) : n \in StoredSizes} \cup {IndustryKey(n) : n \in StoredIndustries}

BaseVector == <<40, 30, 15, 10, 4, 1>>
OtherBaseVector == <<50, 20, 15, 10, 4, 1>>
ShortVector == <<70, 30>>

\* the evidence the graph may hold: breach probabilities on either size and
\* on the IT industry, cost averages on either size
ProbEvidence ==
    {pe \in [NodeKeys -> {<<>>, <<40>>}] : pe[IndustryKey("All")] = <<>>}
CostEvidence ==
    {ce \in [NodeKeys -> {<<>>, <<[mean |-> 1000, median |-> 500]>>}] :
        ce[IndustryKey("All")] = <<>> /\ ce[IndustryKey("IT")] = <<>>}

NoCall == [fn |-> "", size |-> "", industry |-> "", result |-> NoAverages]

NotRun == Outcome("not run", "", 0, {})

\* completed / aborted count the passes that returned / died so far; steps
\* lists the sub-procedure calls of the pass, in order
IdleRegen ==
    [pc |-> "idle", pairing |-> <<"", "">>, sizes |-> <<>>, industries |-> <<>>,
     steps |-> <<>>, pairs |-> <<>>, pair |-> <<"", "">>,
     successful_incidents_dists |-> 0, successful_costs_dists |-> 0,
     frequency |-> NotRun, costs |-> NotRun, completed |-> 0, aborted |-> 0]

\* requested / universal are main's two calls of _run_monte_carlo_simulation
IdleSim ==
    [pc |-> "idle", pairing |-> <<"", "">>, FORCE |-> FALSE, out |-> <<>>,
     requested |-> NoRun, universal |-> NoRun, runs |-> 0]

\* _run_monte_carlo_simulation before it is called
IdleEngine ==
    [pc |-> "idle", N |-> 0,
     incidents_dist |-> [a |-> Num(1, 1), b |-> Num(0, 1)],
     nums_of_incidents |-> <<>>, costs |-> <<>>, sum_costs |-> <<>>,
     first_edge |-> Num(0, 1), last_edge |-> Num(0, 1),
     hist |-> <<>>, cumrev |-> <<>>, out |-> <<>>]

\* the (All, All) distributions the graph is delivered with
InitialFallback ==
    LET p == Num(50, 1)
        fit == FitFrequency(IncidentProbabilities(p, BaseVector))
        mean == Num(1000, 1)
    IN  {create_incident_frequency_distribution_node(
             StoredSizes, StoredIndustries, 1, 0, <<"All", "All">>,
             fit.a, fit.b, FALSE).node,
         create_incident_costs_distribution_node(
             StoredSizes, StoredIndustries, 2, 0, <<"All", "All">>,
             mean, FitStddev(mean, Num(500, 1)), FALSE).node}

Init ==
    /\ sizeNodes = StoredSizes
    /\ industryNodes = StoredIndustries
    /\ probEv \in ProbEvidence
    /\ costEv \in CostEvidence
    /\ baseVecs \in {<<BaseVector>>, <<BaseVector, OtherBaseVector>>, <<ShortVector>>}
    /\ dists = InitialFallback
    /\ nextId = 3
    /\ clock = 0
    /\ cache = {}
    /\ regen = IdleRegen
    /\ sim = IdleSim
    /\ call = NoCall
    /\ engine = IdleEngine

----------------------------------------------------------------------------
(* regenerate_distributions.py: the regeneration driver. *)

\* the orders in which a node scan can return a set of names
Orders(S) == {f \in [1..Cardinality(S) -> S] : \A x \in S : \E k \in DOMAIN f : f[k] = x}

\* list(itertools.product(sizes, industries))
Product(sizes, industries) ==
    [k \in 1..(Len(sizes) * Len(industries)) |->
        <<sizes[((k - 1) \div Len(industries)) + 1],
          industries[((k - 1) % Len(industries)) + 1]>>]

Scripts_idle == regen.pc = "idle" /\ sim.pc = "idle"

\* a pass that also empties the simulation's cache directory
RegenerateBegin_clearing_cache(size, industry) ==
    /\ Scripts_idle
    /\ clock < MaxPasses
    /\ \E sizes \in (IF size = NotSupplied THEN Orders(sizeNodes) ELSE {<<size>>}),
          industries \in (IF industry = NotSupplied THEN Orders(industryNodes)
                          ELSE {<<industry>>}) :
          regen' = [IdleRegen EXCEPT !.pc = "frequency",
                                     !.pairing = <<size, industry>>,
                                     !.sizes = sizes,
                                     !.industries = industries,
                                     !.pairs = Product(sizes, industries),
                                     !.completed = regen.completed,
                                     !.aborted = regen.aborted]
    /\ dists' = delete_distributions(dists)
    /\ clock' = clock + 1
    /\ cache' = {}
    /\ UNCHANGED <<storeVars, nextId, sim, call, engine>>

\* lines 204-213: connect, delete the old distributions, list the pairs
RegenerateBegin(size, industry) ==
    /\ Scripts_idle
    /\ clock < MaxPasses
    /\ \E sizes \in (IF size = NotSupplied THEN Orders(sizeNodes) ELSE {<<size>>}),
          industries \in (IF industry = NotSupplied THEN Orders(industryNodes)
                          ELSE {<<industry>>}) :
          regen' = [IdleRegen EXCEPT !.pc = "frequency",
                                     !.pairing = <<size, industry>>,
                                     !.sizes = sizes,
                                     !.industries = industries,
                                     !.pairs = Product(sizes, industries),
                                     !.completed = regen.completed,
                                     !.aborted = regen.aborted]
    /\ dists' = delete_distributions(dists)
    /\ clock' = clock + 1
    /\ UNCHANGED <<storeVars, nextId, cache, sim, call, engine>>

Created(o) == IF o.created = {} THEN 0 ELSE 1

\* lines 218-220: the frequency sub-procedure for the current pair
RegenerateFrequency ==
    /\ regen.pc = "frequency"
    /\ regen.pairs # <<>>
    /\ \E noneEndRaises \in BOOLEAN :
          LET o == _generate_new_incident_frequency_distribution(
                       sizeNodes, industryNodes, probEv, baseVecs, nextId, clock,
                       Head(regen.pairs), noneEndRaises)
          IN  /\ dists' = dists \cup o.created
              /\ nextId' = nextId + Created(o)
              /\ regen' = [regen EXCEPT
                              !.pc = IF o.tag = "raise" THEN "crashed" ELSE "costs",
                              !.pair = Head(regen.pairs),
                              !.steps = Append(@, <<"frequency", Head(regen.pairs)>>),
                              !.frequency = o,
                              !.costs = NotRun,
                              !.successful_incidents_dists = @ + o.value]
    /\ UNCHANGED <<storeVars, clock, cache, sim, call, engine>>

\* line 221: the cost sub-procedure for the current pair, then the next pair
RegenerateCosts ==
    /\ regen.pc = "costs"
    /\ \E noneEndRaises \in BOOLEAN :
          LET o == _generate_new_incident_costs_distribution(
                       sizeNodes, industryNodes, costEv, nextId, clock,
                       Head(regen.pairs), noneEndRaises)
          IN  /\ dists' = dists \cup o.created
              /\ nextId' = nextId + Created(o)
              /\ regen' = [regen EXCEPT
                              !.pc = IF o.tag = "raise" THEN "crashed"
                                     ELSE IF Tail(regen.pairs) = <<>> THEN "returned"
                                     ELSE "frequency",
                              !.pairs = Tail(@),
                              !.steps = Append(@, <<"costs", Head(regen.pairs)>>),
                              !.costs = o,
                              !.successful_costs_dists = @ + o.value]
    /\ UNCHANGED <<storeVars, clock, cache, sim, call, engine>>

\* line 223 and main's lines 302-312: the tallies are logged, sys.exit(0)
RegenerateReturn ==
    /\ regen.pc = "returned"
    /\ regen' = [IdleRegen EXCEPT !.completed = regen.completed + 1,
                                  !.aborted = regen.aborted]
    /\ UNCHANGED <<storeVars, dists, nextId, clock, cache, sim, call, engine>>

\* an exception in a sub-procedure is caught nowhere: the script dies
RegenerateAbort ==
    /\ regen.pc = "crashed"
    /\ regen' = [IdleRegen EXCEPT !.completed = regen.completed,
                                  !.aborted = regen.aborted + 1]
    /\ UNCHANGED <<storeVars, dists, nextId, clock, cache, sim, call, engine>>

----------------------------------------------------------------------------
(* montecarlo.py: the simulation driver. *)

\* lines 347-375: the requested segment
RunRequested(size, industry, FORCE) ==
    /\ Scripts_idle
    /\ sim.runs < MaxRuns
    /\ size # "" \/ industry # ""
    /\ LET pairing == <<size, industry>>
           r == _run_monte_carlo_simulation(sizeNodes, industryNodes, dists, cache,
                                            pairing, FORCE)
       IN  /\ sim' = [pc |-> IF r.tag = "raise" THEN "crashed" ELSE "universal",
                      pairing |-> pairing,
                      FORCE |-> FORCE,
                      out |-> <<Running(pairing)>> \o
                              (IF r.tag = "results" THEN <<Results(pairing)>>
                               ELSE IF r.tag = "none" THEN <<NoDataFound(pairing)>>
                               ELSE <<>>),
                      requested |-> r,
                      universal |-> NoRun,
                      runs |-> sim.runs + 1]
           /\ cache' = r.cache
    /\ UNCHANGED <<storeVars, nextId, clock, regen, call, engine>>

\* a --force that also clears the stored distributions
MainRequested_clearing(size, industry, FORCE) ==
    /\ RunRequested(size, industry, FORCE)
    /\ dists' = IF FORCE THEN delete_distributions(dists) ELSE dists

MainRequested(size, industry, FORCE) ==
    /\ RunRequested(size, industry, FORCE)
    /\ UNCHANGED dists

\* lines 377-400: the universal segment; sum(None) when the run gave (None, None)
MainUniversal ==
    /\ sim.pc = "universal"
    /\ LET pairing == <<"All", "All">>
           r == _run_monte_carlo_simulation(sizeNodes, industryNodes, dists, cache,
                                            pairing, sim.FORCE)
       IN  /\ sim' = [sim EXCEPT
                         !.pc = IF r.tag = "results" THEN "exited" ELSE "crashed",
                         !.out = @ \o <<Running(pairing)>> \o
                                 (IF r.tag = "results" THEN <<Results(pairing)>>
                                  ELSE <<>>),
                         !.universal = r]
           /\ cache' = r.cache
    /\ UNCHANGED <<storeVars, dists, nextId, clock, regen, call, engine>>

\* sys.exit(0), or the traceback of an uncaught exception
MainExit ==
    /\ sim.pc \in {"exited", "crashed"}
    /\ sim' = [IdleSim EXCEPT !.runs = sim.runs]
    /\ UNCHANGED <<storeVars, dists, nextId, clock, cache, regen, call, engine>>

Next ==
    \/ \E pairing \in RegenPairings : RegenerateBegin(pairing[1], pairing[2])
    \/ RegenerateFrequency
    \/ RegenerateCosts
    \/ RegenerateReturn
    \/ RegenerateAbort
    \/ \E pairing \in SimPairings, FORCE \in BOOLEAN :
          MainRequested(pairing[1], pairing[2], FORCE)
    \/ MainUniversal
    \/ MainExit

Spec == Init /\ [][Next]_vars

----------------------------------------------------------------------------
(* The evidence resolver on its own: a graph with one size and one        *)
(* industry, each present or not, each with up to MaxEv evidence items.   *)

ProbValues == {0, 40, 60}
CostValues == {[mean |-> 0, median |-> 0], [mean |-> 1000, median |-> 500],
               [mean |-> 2000, median |-> 0]}

SeqsUpTo(S, n) == UNION {[1..k -> S] : k \in 0..n}

ResolverKeys == {SizeKey("Micro"), IndustryKey("IT")}

\* evidence hangs off a node: no node, no evidence
Attached(ev) ==
    /\ ("Micro" \notin sizeNodes => ev[SizeKey("Micro")] = <<>>)
    /\ ("IT" \notin industryNodes => ev[IndustryKey("IT")] = <<>>)

NoEvidence == [k \in ResolverKeys |-> <<>>]

InitResolve ==
    /\ sizeNodes \in SUBSET {"Micro"}
    /\ industryNodes \in SUBSET {"IT"}
    /\ \/ /\ probEv \in [ResolverKeys -> SeqsUpTo(ProbValues, MaxEv)]
          /\ costEv = NoEvidence
       \/ /\ probEv = NoEvidence
          /\ costEv \in [ResolverKeys -> SeqsUpTo(CostValues, MaxEv)]
    /\ Attached(probEv)
    /\ Attached(costEv)
    /\ baseVecs = <<BaseVector>>
    /\ dists = {}
    /\ nextId = 1
    /\ clock = 0
    /\ cache = {}
    /\ regen = IdleRegen
    /\ sim = IdleSim
    /\ call = NoCall
    /\ engine = IdleEngine

ResolveProbability(size, industry) ==
    /\ call = NoCall
    /\ call' = [fn |-> "get_probability_of_breach", size |-> size,
                industry |-> industry,
                result |-> get_probability_of_breach(sizeNodes, industryNodes,
                                                     probEv, size, industry)]
    /\ UNCHANGED <<storeVars, dists, nextId, clock, cache, regen, sim, engine>>

ResolveCostAverages(size, industry) ==
    /\ call = NoCall
    /\ call' = [fn |-> "get_incident_cost_averages", size |-> size,
                industry |-> industry,
                result |-> get_incident_cost_averages(sizeNodes, industryNodes,
                                                      costEv, <<size, industry>>)]
    /\ UNCHANGED <<storeVars, dists, nextId, clock, cache, regen, sim, engine>>

NextResolve ==
    \/ ResolveProbability("Micro", "IT")
    \/ ResolveCostAverages("Micro", "IT")

SpecResolve == InitResolve /\ [][NextResolve]_vars

----------------------------------------------------------------------------
(* The resolver's combination policy (spec 4.1). *)

\* the raw values a side holds: those attached to its node, if it exists
SizeSide(ev) == IF call.size \in sizeNodes THEN ev[SizeKey(call.size)] ELSE <<>>
IndustrySide(ev) ==
    IF call.industry \in industryNodes THEN ev[IndustryKey(call.industry)] ELSE <<>>

\* the value a side resolves to when it has raw values: their arithmetic mean
ArithmeticMean(values) == Num(SumSeq(values), Len(values))

\* what steps 3-5 of the policy prescribe for two sides' raw values
Prescribed(s, i) ==
    IF s # <<>> /\ i # <<>> THEN Halve(ArithmeticMean(s), ArithmeticMean(i))
    ELSE IF s # <<>> THEN ArithmeticMean(s)
    ELSE IF i # <<>> THEN ArithmeticMean(i)
    ELSE PyNone

ProbabilityCalled == call.fn = "get_probability_of_breach"
CostAveragesCalled == call.fn = "get_incident_cost_averages"

\* C7: when both the size side and the industry side have a resolved value
\* (0 included), the resolver returns the arithmetic mean of the two side
\* values, for breach probability, for cost mean and for cost median.
C7_BothSidesAveraged ==
    /\ (ProbabilityCalled /\ SizeSide(probEv) # <<>> /\ IndustrySide(probEv) # <<>>)
          => call.result = Halve(ArithmeticMean(SizeSide(probEv)),
                                 ArithmeticMean(IndustrySide(probEv)))
    /\ (CostAveragesCalled /\ SizeSide(costEv) # <<>> /\ IndustrySide(costEv) # <<>>)
          => /\ call.result.tag = "tuple"
             /\ call.result.mean =
                   Halve(ArithmeticMean(Means(SizeSide(costEv))),
                         ArithmeticMean(Means(IndustrySide(costEv))))
             /\ call.result.median =
                   Halve(ArithmeticMean(Medians(SizeSide(costEv))),
                         ArithmeticMean(Medians(IndustrySide(costEv))))

\* C8: when exactly one side has a resolved value V (0 included) and the
\* other has none, the resolver returns exactly V, whichever side holds it.
C8_SingleSideReturned ==
    /\ (ProbabilityCalled /\ (SizeSide(probEv) = <<>>) # (IndustrySide(probEv) = <<>>))
          => call.result = Prescribed(SizeSide(probEv), IndustrySide(probEv))
    /\ (CostAveragesCalled /\ (SizeSide(costEv) = <<>>) # (IndustrySide(costEv) = <<>>))
          => /\ call.result.tag = "tuple"
             /\ call.result.mean = Prescribed(Means(SizeSide(costEv)),
                                              Means(IndustrySide(costEv)))
             /\ call.result.median = Prescribed(Medians(SizeSide(costEv)),
                                                Medians(IndustrySide(costEv)))

\* C9: when neither side has any raw breach-probability evidence (the nodes
\* do not exist, or exist with nothing attached), get_probability_of_breach
\* returns None: a value, not an exception.
C9_NoEvidenceIsNone ==
    (ProbabilityCalled /\ SizeSide(probEv) = <<>> /\ IndustrySide(probEv) = <<>>)
        => call.result = PyNone

\* a node exists with no evidence attached, the other node does not exist or
\* has none either, and the resolver has answered
C9_Witness ==
    /\ ProbabilityCalled
    /\ call.size \in sizeNodes
    /\ SizeSide(probEv) = <<>> /\ IndustrySide(probEv) = <<>>
    /\ call.result.tag = "None"

----------------------------------------------------------------------------
(* The derived-distribution store and the two scripts. *)

ALL == <<"All", "All">>

FrequencyOf(pairing) == MatchDistributions(dists, FrequencyLabel, pairing[1], pairing[2])
CostsOf(pairing) == MatchDistributions(dists, CostsLabel, pairing[1], pairing[2])

HasFallback == FrequencyOf(ALL) # {} /\ CostsOf(ALL) # {}

\* neither the size nor the industry names a node of the graph
UnknownSegment(pairing) ==
    pairing[1] \notin sizeNodes /\ pairing[2] \notin industryNodes

\* the simulation script is past its first run; the graph cannot change
\* until it has exited
RequestedDone == sim.pc \in {"universal", "exited", "crashed"}
MainOver == sim.pc \in {"exited", "crashed"}

\* C1: when main is run for a requested segment for which no derived
\* distribution can be resolved (none stored for it, none cached), it reports
\* "No data found." for that segment without halting, and then still runs
\* the (All, All) simulation and emits its result.
C1_NoDataThenUniversal ==
    (/\ MainOver
     /\ sim.pairing # ALL
     /\ sim.requested.fresh
     /\ FrequencyOf(sim.pairing) = {} /\ CostsOf(sim.pairing) = {}
     /\ HasFallback)
        => /\ sim.pc = "exited"
           /\ sim.out = <<Running(sim.pairing), NoDataFound(sim.pairing),
                          Running(ALL), Results(ALL)>>

\* what "the stored distribution, else the (All, All) one" is for a pairing
StoredOrFallback(result, exact, fallback) ==
    IF exact # {} THEN \E n \in exact : result = ReturnDict(n.props)
    ELSE fallback # {} => \E n \in fallback : result = ReturnDict(n.props)

\* C2: for every pairing, get_incident_frequency_distribution and
\* get_incident_costs_distribution return the distribution stored for
\* exactly that pairing if there is one, and the (All, All) distribution
\* otherwise, whether or not the size node and the industry node exist.
C2_ExactElseFallback ==
    (RequestedDone /\ sim.requested.fresh)
        => /\ StoredOrFallback(sim.requested.frequencyCall,
                               FrequencyOf(sim.pairing), FrequencyOf(ALL))
           /\ sim.requested.costsCall # NotCalled
                 => StoredOrFallback(sim.requested.costsCall,
                                     CostsOf(sim.pairing), CostsOf(ALL))

\* C3: with no script running and every regeneration pass so far completed,
\* (All, All) has exactly one frequency and one cost distribution.
C3_FallbackAlwaysThere ==
    (Scripts_idle /\ regen.aborted = 0)
        => /\ Cardinality(FrequencyOf(ALL)) = 1
           /\ Cardinality(CostsOf(ALL)) = 1

NeedsFallback(pairing) == pairing = ALL \/ UnknownSegment(pairing)

FallbackMissing == FrequencyOf(ALL) = {} \/ CostsOf(ALL) = {}

Ran(run) == run.tag # "not run"

\* C4 as claimed: whenever a simulation run needs the (All, All)
\* distribution and the store lacks its frequency or its cost distribution,
\* the run aborts with an error and produces no counts or costs.
C4_MissingFallbackAborts ==
    /\ (RequestedDone /\ NeedsFallback(sim.pairing) /\ FallbackMissing)
          => sim.requested.tag = "raise"
    /\ (Ran(sim.universal) /\ FallbackMissing) => sim.universal.tag = "raise"

\* C4 as amended: whenever a fresh resolution (no cache file read: none
\* exists, or force-refresh is set) needs the (All, All) distribution and the
\* store lacks its frequency or its cost distribution, the run aborts with an
\* error, produces no counts or costs, and the script dies.
C4_FreshMissingFallbackAborts ==
    /\ (RequestedDone /\ sim.requested.fresh /\ NeedsFallback(sim.pairing)
           /\ FallbackMissing)
          => (sim.requested.tag = "raise" /\ sim.pc = "crashed"
                 /\ Results(sim.pairing) \notin {sim.out[k] : k \in DOMAIN sim.out})
    /\ (Ran(sim.universal) /\ sim.universal.fresh /\ FallbackMissing)
          => (sim.universal.tag = "raise" /\ sim.pc = "crashed"
                 /\ sim.out[Len(sim.out)] = Running(ALL))

\* an unknown segment fell back on (All, All), whose cost distribution is
\* missing, and the run died of it
C4_Witness ==
    /\ RequestedDone /\ sim.requested.fresh
    /\ UnknownSegment(sim.pairing)
    /\ FrequencyOf(ALL) # {} /\ CostsOf(ALL) = {}
    /\ sim.requested.tag = "raise"
    /\ sim.pc = "crashed"

PassRunning == regen.pc \in {"frequency", "costs", "returned", "crashed"}

\* C5: in a regeneration pass every existing distribution is deleted before
\* the first new one is created: the store never holds a distribution from
\* before the pass next to one the pass created (all carry the same
\* calculated_at), and a distribution that stays in the store stays as it is.
C5_WholesaleReplacement ==
    /\ [](\A n \in dists : n.calculated_at = clock)
    /\ [][\A n \in dists, m \in dists' : m.id = n.id => m = n]_vars

\* the second pass has created a distribution; the first pass had too
C5_Witness ==
    /\ PassRunning
    /\ clock = 2
    /\ regen.completed + regen.aborted = 1
    /\ nextId > 3
    /\ \E n \in dists : n.calculated_at = clock

\* C6: a step of the simulation script leaves the derived-distribution store
\* as it was, whether the run ends normally or with an error.
C6_SimulationReadsOnly ==
    [][sim' # sim => (dists' = dists /\ nextId' = nextId /\ clock' = clock)]_vars

\* one run gave results and the next one died, over a non-empty store
C6_Witness ==
    /\ sim.pc = "crashed"
    /\ sim.requested.tag = "results"
    /\ sim.universal.tag = "raise"
    /\ dists # {}

\* neither side of the pair holds any cost evidence
NoCostEvidence(pair) ==
    /\ (pair[1] \in sizeNodes => costEv[SizeKey(pair[1])] = <<>>)
    /\ (pair[2] \in industryNodes => costEv[IndustryKey(pair[2])] = <<>>)

\* C10: for a pair whose cost mean or median is absent (no evidence, the
\* nodes existing or not), _generate_new_incident_costs_distribution creates
\* no cost distribution, returns 0 and raises nothing, and the driver goes on.
C10_NoCostEvidenceSkipped ==
    (PassRunning /\ regen.costs # NotRun /\ NoCostEvidence(regen.pair))
        => /\ regen.costs = Outcome("return", "", 0, {})
           /\ regen.pc # "crashed"

----------------------------------------------------------------------------
(* montecarlo.py: the incident-count sampler on its own.  The draw U of    *)
(* np.random.uniform() is a rational k/UniformGrid in [0, 1); a is 1/k, so *)
(* that the exponent 1/a is a whole number and the power is a rational.    *)

UniformGrid == 10       \* U ranges over 0/UniformGrid .. (UniformGrid-1)/UniformGrid
MaxInverseA == 3        \* a ranges over 1/1 .. 1/MaxInverseA

RECURSIVE Power(_, _)
Power(x, k) == IF k = 0 THEN 1 ELSE x * Power(x, k - 1)

\* int(x): the fractional part is dropped, towards zero
PyInt(x) == IF x.n >= 0 THEN x.n \div x.d ELSE -((-x.n) \div x.d)

\* incidents_dist["b"] / (1 - U) ** (1 / incidents_dist["a"])
PowerLawSample(incidents_dist, U) ==
    LET k == incidents_dist.a.d \div incidents_dist.a.n
        b == incidents_dist.b
    IN  Num(b.n * Power(U.d, k), b.d * Power(U.d - U.n, k))

\* a sampler that rounds to the nearest integer
_calculate_num_of_incidents_rounding(incidents_dist, U) ==
    LET num_of_incidents == PowerLawSample(incidents_dist, U)
    IN  IF num_of_incidents.n <= MAX_ANNUAL_INCIDENTS * num_of_incidents.d
        THEN (2 * num_of_incidents.n + num_of_incidents.d) \div (2 * num_of_incidents.d)
        ELSE MAX_ANNUAL_INCIDENTS

_calculate_num_of_incidents(incidents_dist, U) ==
    LET num_of_incidents == PowerLawSample(incidents_dist, U)
    IN  IF num_of_incidents.n <= MAX_ANNUAL_INCIDENTS * num_of_incidents.d
        THEN PyInt(num_of_incidents)
        ELSE MAX_ANNUAL_INCIDENTS

\* the (a, b) a stored frequency distribution may hold
SampleDists ==
    {[a |-> Num(1, k), b |-> b] :
        k \in 1..MaxInverseA,
        b \in {Num(1, 2), Num(3, 2), Num(7, 1), Num(400, 1),
               Num(MAX_ANNUAL_INCIDENTS, 1)}}

Uniforms == {Num(u, UniformGrid) : u \in 0..(UniformGrid - 1)}

\* no graph and no script: a function is called on its arguments alone
Standalone ==
    /\ sizeNodes = {}
    /\ industryNodes = {}
    /\ probEv = <<>>
    /\ costEv = <<>>
    /\ baseVecs = <<>>
    /\ dists = {}
    /\ nextId = 1
    /\ clock = 0
    /\ cache = {}
    /\ regen = IdleRegen
    /\ sim = IdleSim

InitSample ==
    /\ Standalone
    /\ call = NoCall
    /\ engine = IdleEngine

CalculateNumOfIncidents(incidents_dist, U) ==
    /\ call = NoCall
    /\ call' = [fn |-> "_calculate_num_of_incidents",
                incidents_dist |-> incidents_dist, U |-> U,
                result |-> _calculate_num_of_incidents(incidents_dist, U)]
    /\ UNCHANGED <<storeVars, dists, nextId, clock, cache, regen, sim, engine>>

NextSample ==
    \E incidents_dist \in SampleDists, U \in Uniforms :
        CalculateNumOfIncidents(incidents_dist, U)

SpecSample == InitSample /\ [][NextSample]_vars

SampleCalled == call.fn = "_calculate_num_of_incidents"

\* C11: for every (a, b) and every draw U in [0, 1), the count returned by
\* _calculate_num_of_incidents is an integer that never exceeds
\* MAX_ANNUAL_INCIDENTS: the value b / (1 - U)^(1/a) with its fractional part
\* dropped (not rounded) when the value is at or below the cap, and exactly
\* the cap otherwise.
C11_TruncatedAndCapped ==
    SampleCalled =>
        LET x == PowerLawSample(call.incidents_dist, call.U)
            r == call.result
        IN  /\ r \in Int
            /\ r <= MAX_ANNUAL_INCIDENTS
            /\ (x.n <= MAX_ANNUAL_INCIDENTS * x.d)
                  => (r * x.d <= x.n /\ x.n < (r + 1) * x.d)
            /\ (x.n > MAX_ANNUAL_INCIDENTS * x.d) => r = MAX_ANNUAL_INCIDENTS

\* a draw whose value lies above the cap came back as the cap
C11_Witness ==
    /\ SampleCalled
    /\ LET x == PowerLawSample(call.incidents_dist, call.U)
       IN  x.n > MAX_ANNUAL_INCIDENTS * x.d
    /\ call.result = MAX_ANNUAL_INCIDENTS

----------------------------------------------------------------------------
(* montecarlo.py: the simulation engine, one trial at a time.  The draws   *)
(* of random.lognormvariate are positive amounts taken from a stream.      *)

MaxTrials == 2          \* N, the number of simulated years, is 1..MaxTrials

COMPANY_VALUE == 100000

\* math.floor(COMPANY_VALUE / 30)
LEC_PRECISION == COMPANY_VALUE \div 30

LognormalValues == {75, 2500}

\* (a, b) and the draws that give 0, 1 and 3 incidents in a year
EngineDists == {[a |-> Num(1, 1), b |-> Num(1, 2)], [a |-> Num(1, 1), b |-> Num(3, 2)]}
EngineUniforms == {Num(0, 1), Num(1, 2)}

\* a sum that draws one sample too many
_calculate_sum_cost_of_incidents_one_more(num_of_incidents, lognormvariate) ==
    LET costs == [r \in 1..(num_of_incidents + 1) |-> lognormvariate[r]]
    IN  [costs |-> costs, sum |-> SumSeq(costs)]

\* lognormvariate is the stream random.lognormvariate would deliver; costs
\* are the samples taken from it
_calculate_sum_cost_of_incidents(num_of_incidents, lognormvariate) ==
    IF num_of_incidents = 0
    THEN [costs |-> <<>>, sum |-> 0]
    ELSE LET costs == [r \in 1..num_of_incidents |-> lognormvariate[r]]
         IN  [costs |-> costs, sum |-> SumSeq(costs)]

SetMin(S) == CHOOSE x \in S : \A y \in S : x <= y
SetMax(S) == CHOOSE x \in S : \A y \in S : x >= y

\* np.histogram's range: the data's (min, max), widened by 0.5 on either
\* side when they are equal
first_edge(a) ==
    LET mn == SetMin({a[k] : k \in DOMAIN a})
        mx == SetMax({a[k] : k \in DOMAIN a})
    IN  IF mn = mx THEN Num(2 * mn - 1, 2) ELSE Num(mn, 1)

last_edge(a) ==
    LET mn == SetMin({a[k] : k \in DOMAIN a})
        mx == SetMax({a[k] : k \in DOMAIN a})
    IN  IF mn = mx THEN Num(2 * mx + 1, 2) ELSE Num(mx, 1)

\* edges[i - 1]: the lower edge of bin i, first + (i - 1) * (last - first) / bins
bin_edge(first, last, bins, i) ==
    Num(first.n * last.d * bins + (i - 1) * (last.n * first.d - first.n * last.d),
        first.d * last.d * bins)

\* a binning whose last bin is half-open like the others
BinOf_half_open(x, first, last, bins) ==
    LET offset == (x * first.d - first.n) * last.d
        width == last.n * first.d - first.n * last.d
    IN  ((offset * bins) \div width) + 1

\* the bin of x among `bins` equal-width bins over [first, last]: every bin
\* is half-open but the last, which holds its right edge
BinOf(x, first, last, bins) ==
    LET offset == (x * first.d - first.n) * last.d
        width == last.n * first.d - first.n * last.d
    IN  IF x * last.d = last.n THEN bins
        ELSE ((offset * bins) \div width) + 1

histogram(a, bins) ==
    LET first == first_edge(a)
        last == last_edge(a)
    IN  [i \in 1..bins |->
            Cardinality({k \in DOMAIN a : BinOf(a[k], first, last, bins) = i})]

\* np.cumsum(hist[::-1])[::-1] over hist[lo..hi], `above` being the sum of
\* the bins beyond hi; the upper half is summed first
RECURSIVE cumsum_reversed(_, _, _, _)
cumsum_reversed(hist, lo, hi, above) ==
    IF lo = hi THEN <<hist[lo] + above>>
    ELSE LET mid == (lo + hi) \div 2
             upper == cumsum_reversed(hist, mid + 1, hi, above)
         IN  IF upper = <<>> THEN upper
             ELSE cumsum_reversed(hist, lo, mid, upper[1]) \o upper

\* a curve accumulated from the low bins upwards
LossExceedanceCurve_forward(hist, trials) ==
    LET c == cumsum_reversed(hist, 1, Len(hist), 0)
    IN  [i \in 1..Len(hist) |->
            Num((c[1] - (IF i < Len(hist) THEN c[i + 1] ELSE 0)) * 100, trials)]

\* cumrev = np.cumsum(hist[::-1])[::-1] * 100 / len(sum_costs)
LossExceedanceCurve(hist, trials) ==
    LET c == cumsum_reversed(hist, 1, Len(hist), 0)
    IN  [i \in 1..Len(hist) |-> Num(c[i] * 100, trials)]

\* sum(xs) / len(xs)
PyMean(xs) == Num(SumSeq(xs), Len(xs))

\* "%.2f" % x, in hundredths: the nearest one, either neighbour on a tie
TwoDecimals(x) ==
    LET scaled == Num(x.n * 100, x.d)
        below == scaled.n \div scaled.d
        twice == 2 * (scaled.n % scaled.d)
    IN  IF twice < scaled.d THEN {Num(below, 100)}
        ELSE IF twice > scaled.d THEN {Num(below + 1, 100)}
        ELSE {Num(below, 100), Num(below + 1, 100)}

\* print(int(avg_num_of_incidents / 100)), with
\* avg_num_of_incidents = int(sum(nums_of_incidents) / len(nums_of_incidents))
PrintedIncidents(nums_of_incidents) ==
    Num(PyInt(Num(PyInt(PyMean(nums_of_incidents)), 100)), 1)

\* print("%.2f" % (avg_sum_costs / 100))
PrintedCosts(sum_costs) ==
    LET avg_sum_costs == PyMean(sum_costs)
    IN  TwoDecimals(Num(avg_sum_costs.n, avg_sum_costs.d * 100))

InitEngine ==
    /\ Standalone
    /\ call = NoCall
    /\ engine \in {[IdleEngine EXCEPT !.pc = "incidents", !.N = n,
                                      !.incidents_dist = d] :
                      n \in 1..MaxTrials, d \in EngineDists}

\* lines 199-201: one more element of nums_of_incidents
SimulateIncidents(U) ==
    /\ engine.pc = "incidents"
    /\ engine' = [engine EXCEPT
                     !.nums_of_incidents =
                         Append(@, _calculate_num_of_incidents(engine.incidents_dist, U)),
                     !.pc = IF Len(engine.nums_of_incidents) + 1 = engine.N
                            THEN "costs" ELSE "incidents"]
    /\ UNCHANGED <<storeVars, dists, nextId, clock, cache, regen, sim, call>>

\* lines 218-221: one more element of sum_costs, from the count at idx
SimulateCosts ==
    /\ engine.pc = "costs"
    /\ LET idx == Len(engine.sum_costs) + 1
           num_of_incidents == engine.nums_of_incidents[idx]
       IN  \E lognormvariate \in [1..(num_of_incidents + 1) -> LognormalValues] :
              LET r == _calculate_sum_cost_of_incidents(num_of_incidents, lognormvariate)
              IN  engine' = [engine EXCEPT
                                !.costs = Append(@, r.costs),
                                !.sum_costs = Append(@, r.sum),
                                !.pc = IF idx = engine.N THEN "lec" ELSE "costs"]
    /\ UNCHANGED <<storeVars, dists, nextId, clock, cache, regen, sim, call>>

\* lines 237-255: the loss exceedance curve, and the two lists are returned
LossExceedance ==
    /\ engine.pc = "lec"
    /\ LET hist == histogram(engine.sum_costs, LEC_PRECISION)
       IN  engine' = [engine EXCEPT
                         !.first_edge = first_edge(engine.sum_costs),
                         !.last_edge = last_edge(engine.sum_costs),
                         !.hist = hist,
                         !.cumrev = LossExceedanceCurve(hist, Len(engine.sum_costs)),
                         !.pc = "returned"]
    /\ UNCHANGED <<storeVars, dists, nextId, clock, cache, regen, sim, call>>

\* main, lines 357-372: the two figures printed for the game server
PrintResults ==
    /\ engine.pc = "returned"
    /\ \E costs \in PrintedCosts(engine.sum_costs) :
          engine' = [engine EXCEPT
                        !.out = <<PrintedIncidents(engine.nums_of_incidents), costs>>,
                        !.pc = "printed"]
    /\ UNCHANGED <<storeVars, dists, nextId, clock, cache, regen, sim, call>>

NextEngine ==
    \/ \E U \in EngineUniforms : SimulateIncidents(U)
    \/ SimulateCosts
    \/ LossExceedance
    \/ PrintResults

SpecEngine == InitEngine /\ [][NextEngine]_vars

----------------------------------------------------------------------------
(* The simulation engine's results (spec 4.3). *)

CurveDrawn == engine.pc \in {"returned", "printed"}

\* x >= y for two numbers
AtLeast(x, y) == x.n * y.d >= y.n * x.d

\* C12: the loss exceedance values, taken in order of increasing bin lower
\* edge, never increase, whatever the simulated annual costs.
C12_CurveNeverIncreases ==
    CurveDrawn =>
        \A i \in 1..(Len(engine.cumrev) - 1) :
            AtLeast(engine.cumrev[i], engine.cumrev[i + 1])

\* two years with different costs: the curve starts at 100 and steps down to 50
C12_Witness ==
    /\ CurveDrawn
    /\ engine.N = 2
    /\ engine.sum_costs[1] # engine.sum_costs[2]
    /\ engine.cumrev[1] = Num(100, 1)
    /\ engine.cumrev[LEC_PRECISION] = Num(50, 1)

ResultsPrinted == engine.pc = "printed"

\* C13: the two figures main prints for its callers are the arithmetic mean
\* of the per-trial incident counts and the arithmetic mean of the per-trial
\* annual costs over all N trials, with no further scaling or truncation.
C13_PlainMeans ==
    ResultsPrinted =>
        /\ engine.out[1] = PyMean(engine.nums_of_incidents)
        /\ engine.out[2] = PyMean(engine.sum_costs)

TrialsOf(xs) == Len(xs) = engine.N

\* C20: a trial whose count is 0 has an annual cost of exactly 0 and draws no
\* cost sample; a trial whose count is c > 0 has the sum of exactly c drawn
\* samples as its annual cost; the simulation returns exactly N counts and N
\* costs, the i-th cost computed from the i-th count.
C20_TrialByTrial ==
    /\ \A i \in DOMAIN engine.sum_costs :
          /\ Len(engine.costs[i]) = engine.nums_of_incidents[i]
          /\ \A r \in DOMAIN engine.costs[i] : engine.costs[i][r] \in LognormalValues
          /\ engine.sum_costs[i] = SumSeq(engine.costs[i])
          /\ engine.nums_of_incidents[i] = 0 => engine.sum_costs[i] = 0
    /\ CurveDrawn => (TrialsOf(engine.nums_of_incidents) /\ TrialsOf(engine.sum_costs))

\* two years returned: none with no incident and no cost, one with three
\* incidents and the sum of three samples
C20_Witness ==
    /\ CurveDrawn
    /\ engine.N = 2
    /\ \E i \in 1..2 : engine.nums_of_incidents[i] = 0 /\ engine.costs[i] = <<>>
                          /\ engine.sum_costs[i] = 0
    /\ \E i \in 1..2 : engine.nums_of_incidents[i] = 1 /\ engine.sum_costs[i] > 0

----------------------------------------------------------------------------
(* The distribution cache (spec 4.3, 6). *)

\* the cache files a resolution for the pairing finds when it starts
EntriesFor(pairing) == {e \in cache : e.file = CacheKey(pairing)}

\* what a resolution that starts in this state must have done
CacheRespected(run, pairing, FORCE) ==
    /\ (~FORCE /\ EntriesFor(pairing) # {})
          => /\ \E e \in EntriesFor(pairing) :
                   run.incidents = e.incidents /\ run.costs = e.costs
             /\ ~run.fresh
             /\ run.frequencyCall = NotCalled /\ run.costsCall = NotCalled
    /\ FORCE
          => /\ run.fresh
             /\ run.frequencyCall # NotCalled
             /\ run.frequencyCall.tag # "raise" => run.costsCall # NotCalled

\* C14: when force-refresh is not set and a cache entry named
\* "{size}-{industry}" exists, the resolution returns the cached pair without
\* connecting to or querying the graph; when force-refresh is set, the cache
\* is not read and the graph is always queried.
C14_CacheBeforeRepository ==
    [][/\ (sim.pc = "idle" /\ sim'.pc # "idle")
             => CacheRespected(sim'.requested, sim'.pairing, sim'.FORCE)
       /\ (sim.pc = "universal" /\ sim'.pc # "universal")
             => CacheRespected(sim'.universal, ALL, sim.FORCE)]_vars

\* a run without --force found its pair in the cache and asked the graph
\* nothing, although the store had been regenerated since
C14_Witness ==
    /\ RequestedDone
    /\ ~sim.FORCE
    /\ sim.requested.tag = "results"
    /\ ~sim.requested.fresh
    /\ sim.requested.frequencyCall = NotCalled
    /\ clock > 0

----------------------------------------------------------------------------
(* The distribution fitter in a regeneration pass (spec 4.1, 4.2). *)

\* the stored base vectors the resolution may use
Qualifying(boundaries) ==
    SelectSeq(baseVecs, LAMBDA v : Len(v) = Len(boundaries) - 1)

\* the element-wise arithmetic mean of vectors of one length, in hundredths
ElementwiseMean(vectors) ==
    [i \in 1..Len(vectors[1]) |->
        Num(SumSeq([k \in 1..Len(vectors) |-> vectors[k][i]]), Len(vectors))]

\* (100 - p)/100, then p * P_base[i] / 100, for a base vector of numbers in
\* hundredths
SurvivalSeries(p, base) ==
    <<Num(100 * p.d - p.n, 100 * p.d)>>
        \o [i \in 1..Len(base) |-> Num(p.n * base[i].n, p.d * base[i].d * 100 * 100)]

FrequencyRan == PassRunning /\ regen.frequency # NotRun

\* C15: base-frequency resolution uses only the vectors whose length is the
\* boundary count minus one, and when more than one such vector is stored
\* it completes without error and uses their element-wise arithmetic mean.
C15_SeveralVectorsAveraged ==
    (FrequencyRan /\ Len(Qualifying(AllButLast(BOUNDARIES))) > 1)
        => /\ regen.frequency.tag = "return"
           /\ \A n \in regen.frequency.created :
                 n.props.a.fitted_from =
                     SurvivalSeries(
                         get_probability_of_breach(sizeNodes, industryNodes, probEv,
                                                   regen.pair[1], regen.pair[2]),
                         ElementwiseMean(Qualifying(AllButLast(BOUNDARIES))))

----------------------------------------------------------------------------
(* The distribution fitter on its own: a graph with the Size node Micro    *)
(* and the Industry node IT, their evidence, and the stored base vectors.  *)

FitPairing == <<"Micro", "IT">>

\* the three boundaries None, Once a year, MAX, and the seven the fitter passes
ExampleBoundaries == <<0, 1, MAX_ANNUAL_INCIDENTS>>
FitBoundaries == {ExampleBoundaries, AllButLast(BOUNDARIES)}

FitProbEvidence ==
    {pe \in [ResolverKeys -> {<<>>, <<0>>, <<50>>, <<100>>}] :
        pe[IndustryKey("IT")] \in {<<>>, <<0>>}}
FitCostEvidence ==
    {ce \in [ResolverKeys -> {<<>>, <<[mean |-> 1000, median |-> 1000]>>,
                              <<[mean |-> 1000, median |-> 500]>>,
                              <<[mean |-> 1000, median |-> 0]>>}] :
        ce[IndustryKey("IT")] = <<>>}
FitBaseVectors ==
    {<<ShortVector>>, <<BaseVector>>, <<BaseVector, ShortVector>>,
     <<BaseVector, OtherBaseVector>>}

InitFit ==
    /\ sizeNodes = {"Micro"}
    /\ industryNodes = {"IT"}
    /\ probEv \in FitProbEvidence
    /\ costEv \in FitCostEvidence
    /\ baseVecs \in FitBaseVectors
    /\ dists = {}
    /\ nextId = 1
    /\ clock = 0
    /\ cache = {}
    /\ regen = IdleRegen
    /\ sim = IdleSim
    /\ call = NoCall
    /\ engine = IdleEngine

ResolveFrequencyProbabilities(boundaries) ==
    /\ call = NoCall
    /\ call' = [fn |-> "get_incident_frequency_probabilities",
                size |-> FitPairing[1], industry |-> FitPairing[2],
                boundaries |-> boundaries,
                result |-> get_incident_frequency_probabilities(
                               sizeNodes, industryNodes, probEv, baseVecs,
                               boundaries, FitPairing)]
    /\ UNCHANGED <<storeVars, dists, nextId, clock, cache, regen, sim, engine>>

GenerateFrequencyDistribution ==
    /\ call = NoCall
    /\ \E noneEndRaises \in BOOLEAN :
          LET o == _generate_new_incident_frequency_distribution(
                       sizeNodes, industryNodes, probEv, baseVecs, nextId, clock,
                       FitPairing, noneEndRaises)
          IN  /\ call' = [fn |-> "_generate_new_incident_frequency_distribution",
                          size |-> FitPairing[1], industry |-> FitPairing[2],
                          result |-> o]
              /\ dists' = dists \cup o.created
              /\ nextId' = nextId + Created(o)
    /\ UNCHANGED <<storeVars, clock, cache, regen, sim, engine>>

GenerateCostsDistribution ==
    /\ call = NoCall
    /\ \E noneEndRaises \in BOOLEAN :
          LET o == _generate_new_incident_costs_distribution(
                       sizeNodes, industryNodes, costEv, nextId, clock,
                       FitPairing, noneEndRaises)
          IN  /\ call' = [fn |-> "_generate_new_incident_costs_distribution",
                          size |-> FitPairing[1], industry |-> FitPairing[2],
                          result |-> o]
              /\ dists' = dists \cup o.created
              /\ nextId' = nextId + Created(o)
    /\ UNCHANGED <<storeVars, clock, cache, regen, sim, engine>>

NextFit ==
    \/ \E boundaries \in FitBoundaries : ResolveFrequencyProbabilities(boundaries)
    \/ GenerateFrequencyDistribution
    \/ GenerateCostsDistribution

SpecFit == InitFit /\ [][NextFit]_vars

----------------------------------------------------------------------------
(* The fitter's formulas (spec 4.2). *)

FrequencyProbabilitiesCalled == call.fn = "get_incident_frequency_probabilities"

\* the breach probability the resolver gives the pairing of the call
ResolvedProbability ==
    get_probability_of_breach(sizeNodes, industryNodes, probEv, call.size, call.industry)

\* the one stored base vector of matching length, as numbers in hundredths
GivenBase(boundaries) ==
    LET v == Qualifying(boundaries)[1]
    IN  [i \in 1..Len(v) |-> Num(v[i], 1)]

\* what the claim prescribes for the call, and its worked example
SeriesAsPrescribed ==
    /\ call.result.tag = "list"
    /\ call.result.val.list = SurvivalSeries(ResolvedProbability, GivenBase(call.boundaries))
    /\ Len(call.result.val.list) = Len(call.boundaries)
    /\ (ResolvedProbability = Num(50, 1) /\ Qualifying(call.boundaries) = <<ShortVector>>
           /\ call.boundaries = ExampleBoundaries)
          => call.result.val.list = <<Num(1, 2), Num(7, 20), Num(3, 20)>>

CostsFitCalled == call.fn = "_generate_new_incident_costs_distribution"

ResolvedAverages ==
    get_incident_cost_averages(sizeNodes, industryNodes, costEv,
                               <<call.size, call.industry>>)

\* exp(sqrt(2 * (log(mean) - log(median)))) for median > 0 and
\* exp(sqrt(2 * log(mean))) for median = 0, as the x in exp(sqrt(2 * log(x)))
PrescribedStddev(mean, median) ==
    [param |-> "stddev",
     exp_sqrt_twice_log_of |-> IF median.n = 0 THEN mean
                               ELSE Num(mean.n * median.d, mean.d * median.n)]

\* C17: cost fitting computes log_stddev = sqrt(2 * (log(mean) - log(median)))
\* when median > 0 and sqrt(2 * log(mean)) when median = 0, and persists
\* stddev = exp(log_stddev) with the resolved mean; mean = 1000 and
\* median = 1000 give log_stddev = 0 and stddev = 1.
C17_StddevFromMeanAndMedian ==
    (/\ CostsFitCalled
     /\ ResolvedAverages.tag = "tuple"
     /\ ResolvedAverages.mean.tag = "num" /\ ResolvedAverages.median.tag = "num")
        => /\ Cardinality(call.result.created) = 1
           /\ \A n \in call.result.created :
                 /\ n.label = CostsLabel
                 /\ n.props.mean = ResolvedAverages.mean
                 /\ n.props.stddev = PrescribedStddev(ResolvedAverages.mean,
                                                      ResolvedAverages.median)
                 /\ (ResolvedAverages.mean = Num(1000, 1)
                        /\ ResolvedAverages.median = Num(1000, 1))
                       => n.props.stddev.exp_sqrt_twice_log_of = Num(1, 1)

FrequencyFitCalled == call.fn = "_generate_new_incident_frequency_distribution"

\* the sum of a probability vector is its last cumulative sum
SumsToOne(probs) == cumsum(probs)[Len(probs)] = Num(1, 1)

\* C18: for every probability vector that sums to 1, frequency fitting
\* regresses log(1 - F) on log(boundary) over all boundaries except None,
\* every regression point being a finite number, and yields a = -slope and
\* b = exp(intercept / a) with a > 0 and b > 0.
C18_FiniteRegression ==
    FrequencyFitCalled =>
        \A n \in call.result.created :
            LET probs == n.props.a.fitted_from
                points == RegressionPoints(probs)
            IN  SumsToOne(probs)
                    => /\ [i \in 1..Len(points) |-> points[i].xs.n] = Tail(BOUNDARIES)
                       /\ \A i \in 1..Len(points) :
                             FiniteLog(points[i].xs) /\ FiniteLog(points[i].ys)
                       /\ n.props.a.sign = "positive"
                       /\ n.props.b.sign = "positive"

----------------------------------------------------------------------------
(* The regeneration driver's pass (spec 4.4). *)

PassReturned == regen.pc = "returned"

\* the sizes and the industries a pass is to cover: every stored one when
\* the argument is not supplied, the one supplied otherwise
SizesToCover ==
    IF regen.pairing[1] = NotSupplied THEN sizeNodes ELSE {regen.pairing[1]}
IndustriesToCover ==
    IF regen.pairing[2] = NotSupplied THEN industryNodes ELSE {regen.pairing[2]}

StepsOf(kind, pair) == {k \in DOMAIN regen.steps : regen.steps[k] = <<kind, pair>>}

WithLabel(label) == {n \in dists : n.label = label}

\* C19: a regeneration pass that completes has processed each pair of the
\* Cartesian product of its sizes and industries exactly once, the frequency
\* sub-procedure and then the cost sub-procedure, and the two tallies it
\* returns are the numbers of IncidentFrequencyDistribution and
\* IncidentCostsDistribution nodes in the store at that moment.
C19_EachPairOnceAndTallies ==
    PassReturned =>
        /\ Len(regen.steps) = 2 * Cardinality(SizesToCover) * Cardinality(IndustriesToCover)
        /\ \A size \in SizesToCover, industry \in IndustriesToCover :
              \E k \in DOMAIN regen.steps :
                 /\ StepsOf("frequency", <<size, industry>>) = {k}
                 /\ StepsOf("costs", <<size, industry>>) = {k + 1}
        /\ regen.successful_incidents_dists = Cardinality(WithLabel(FrequencyLabel))
        /\ regen.successful_costs_dists = Cardinality(WithLabel(CostsLabel))

\* a pass over all four pairs has returned, with distributions of both kinds
\* created and fewer of them than pairs
C19_Witness ==
    /\ PassReturned
    /\ Len(regen.steps) = 8
    /\ regen.successful_incidents_dists \in 1..3
    /\ regen.successful_costs_dists \in 1..3

----------------------------------------------------------------------------
(* The loss exceedance curve and its histogram (spec 4.3). *)

\* the trials whose annual cost is at or above an amount
TrialsAtLeast(amount) ==
    {k \in DOMAIN engine.sum_costs : engine.sum_costs[k] * amount.d >= amount.n}

\* C21: for every bin of the cost histogram, the curve value plotted at the
\* bin's lower edge is 100 x (the number of trials whose annual cost is at
\* least that edge) / (the number of trials).
C21_ExceedanceAtLowerEdge ==
    CurveDrawn =>
        \A i \in 1..LEC_PRECISION :
            engine.cumrev[i] =
                Num(100 * Cardinality(TrialsAtLeast(
                              bin_edge(engine.first_edge, engine.last_edge,
                                       LEC_PRECISION, i))),
                    Len(engine.sum_costs))

\* two years, one without incidents and one with: every edge above the
\* first is exceeded by one year of the two
C21_Witness ==
    /\ CurveDrawn
    /\ engine.sum_costs \in {<<0, 75>>, <<75, 0>>}
    /\ engine.cumrev[1] = Num(100, 1)
    /\ engine.cumrev[2] = Num(50, 1)
    /\ bin_edge(engine.first_edge, engine.last_edge, LEC_PRECISION, 2)
          = Num(75, LEC_PRECISION)

\* C22: the histogram the curve is built from always has the same number of
\* bins and always spans the range from 0 to COMPANY_VALUE, whatever the
\* simulated costs are.
C22_FixedBinsAndRange ==
    CurveDrawn =>
        /\ Len(engine.hist) = LEC_PRECISION
        /\ engine.first_edge = Num(0, 1)
        /\ engine.last_edge = Num(COMPANY_VALUE, 1)

----------------------------------------------------------------------------
(* The associations of the derived distributions (spec 3). *)

Distributions == WithLabel(FrequencyLabel) \cup WithLabel(CostsLabel)

AfterRegeneration == regen.pc = "idle" /\ clock > 0

\* C23: after any regeneration call, a call for a size or an industry that
\* names no node included, every IncidentFrequencyDistribution and
\* IncidentCostsDistribution in the store has its FOR_SIZE relationship to a
\* Size node and its FOR_INDUSTRY relationship to an Industry node, and no
\* pairing has more than one distribution of a kind.
C23_OneSegmentEach ==
    AfterRegeneration =>
        /\ \A n \in Distributions :
              n.for_size \in sizeNodes /\ n.for_industry \in industryNodes
        /\ \A n \in Distributions, m \in Distributions :
              (n.label = m.label /\ n.for_size = m.for_size
                  /\ n.for_industry = m.for_industry) => n = m

----------------------------------------------------------------------------
(* What the distribution cache holds (spec 6). *)

\* a distribution with its parameters, not None
UsableFrequency(d) == d.tag = "dict" /\ DOMAIN d.val = {"a", "b"}
UsableCosts(d) == d.tag = "dict" /\ DOMAIN d.val = {"mean", "stddev"}

\* the resolution a step of the simulation script has just made
ResolutionMade == IF sim.pc = "idle" THEN sim'.requested ELSE sim'.universal

\* C24: a cache entry is written only after a fresh resolution that produced
\* a usable frequency distribution (a, b) and a usable cost distribution
\* (mean, stddev): no entry ever holds an absent distribution, and none is
\* written by a resolution that ends in an error.
C24_OnlyUsableCached ==
    /\ [](\A e \in cache : UsableFrequency(e.incidents) /\ UsableCosts(e.costs))
    /\ [][cache' # cache
             => /\ sim' # sim
                /\ ResolutionMade.fresh
                /\ ResolutionMade.frequencyCall.tag # "raise"
                /\ ResolutionMade.costsCall.tag # "raise"
                /\ \A e \in cache' \ cache :
                      /\ e.incidents = ResolutionMade.frequencyCall
                      /\ e.costs = ResolutionMade.costsCall]_vars

\* one fresh resolution has saved its pair, and a later one for (All, All)
\* ended in an error and saved nothing
C24_Witness ==
    /\ sim.pc = "crashed"
    /\ sim.requested.fresh /\ sim.requested.tag = "results"
    /\ sim.universal.fresh /\ sim.universal.tag = "raise"
    /\ Cardinality(cache) = 1
    /\ \E e \in cache : e.file = CacheKey(sim.pairing)

\* the pairing a step of the simulation script has just resolved
PairingResolved == IF sim.pc = "idle" THEN sim'.pairing ELSE ALL

\* a step of the simulation script that resolves distributions
Resolves == sim' # sim /\ sim.pc \in {"idle", "universal"}

\* C25: once a cache entry for a pairing has been written, every later
\* resolution for that pairing without force-refresh returns exactly that
\* entry's distributions, even when a regeneration pass has since deleted
\* and recreated the distributions in the store: regeneration never changes
\* the cache, and only a resolution with force-refresh replaces an entry.
C25_EntryOutlivesRegeneration ==
    /\ [](\A e \in cache, f \in cache : e.file = f.file => e = f)
    /\ [][/\ regen' # regen => cache' = cache
          /\ (Resolves /\ ~sim'.FORCE /\ EntriesFor(PairingResolved) # {})
                => /\ cache' = cache
                   /\ \A e \in EntriesFor(PairingResolved) :
                         /\ ResolutionMade.tag # "raise"
                         /\ ResolutionMade.incidents = e.incidents
                         /\ ResolutionMade.costs = e.costs
          /\ \A e \in cache \ cache' :
                /\ Resolves /\ sim'.FORCE
                /\ e.file = CacheKey(PairingResolved)
                /\ \E f \in cache' \ cache :
                      /\ f.file = e.file
                      /\ f.incidents = ResolutionMade.frequencyCall
                      /\ f.costs = ResolutionMade.costsCall]_vars

\* what the store would answer now for the requested pairing
StoreAnswer == FreshDistributions(sizeNodes, industryNodes, dists, cache, sim.pairing)

\* a run without --force has been answered from an entry written before the
\* last regeneration pass, while the store now answers something else
C25_Witness ==
    /\ sim.pc = "universal"
    /\ ~sim.FORCE
    /\ ~sim.requested.fresh
    /\ clock > 0 /\ regen.completed + regen.aborted > 0
    /\ \E e \in EntriesFor(sim.pairing) :
          /\ sim.requested.incidents = e.incidents
          /\ sim.requested.costs = e.costs
    /\ StoreAnswer.incidents # sim.requested.incidents

====
